---- MODULE Spec2Model ----
(***************************************************************************)
(* The Playbook key-value layer of tcex (tcex/playbook/playbook.py), the   *)
(* input field type StringArray (tcex/input/field_types/string_array.py)   *)
(* and the cached_property_filesystem decorator as its tests describe it.  *)
(*                                                                         *)
(* Python values are tagged tuples <<type, payload>>: None, Str(chars),    *)
(* List(items), PyInt(n), PyBool(b), Dict(function).  A Python str is a    *)
(* sequence of one-character strings, so strip(), f-string formatting and  *)
(* the variable grammar are computed character by character.  x[1] is a  *)
(* value's type and x[2] its payload.                                     *)
(***************************************************************************)
EXTENDS Integers, Sequences, FiniteSets, TLC

VARIABLES
    _context,                    \* constructor argument context
    output_variables,            \* constructor argument output_variables
    _output_variables_by_name,   \* memoized name index (None until parsed)
    _output_variables_by_type,   \* memoized name-type index (None until parsed)
    output_data,                 \* self.output_data, an insertion-ordered dict
    kv,                          \* the key-value store under self._context
    call,                        \* the last call made on the Playbook and its arguments
    ret,                         \* what that call returned
    raised,                      \* the exception that call raised ("" when none)
    value_local,                 \* read(): the local `value` before the array coercion
    trace,                       \* create_output invocations and store calls of the last call
    cache                        \* the caches of cached_property_filesystem and their clock

vars == <<_context, output_variables, _output_variables_by_name, _output_variables_by_type,
          output_data, kv, call, ret, raised, value_local, trace, cache>>

(***************************************************************************)
(* Bounds of the model.                                                    *)
(***************************************************************************)
\* longest list the output buffer may accumulate under one index
MaxLen == 2
\* depth of embedded-variable resolution at which the interpreter gives up
RecursionLimit == 3
\* most calls of the functions of the cached properties
MaxCalls == 2
\* most sleeps of the clock the cache entries are timed with
MaxSleeps == 1

(***************************************************************************)
(* Python values.                                                          *)
(***************************************************************************)
None == <<"NoneType">>
Str(s) == <<"str", s>>
List(l) == <<"list", l>>
PyInt(n) == <<"int", n>>
Dict(f) == <<"dict", f>>
PyBool(b) == <<"bool", b>>

IsNone(x) == x[1] = "NoneType"
IsStr(x) == x[1] = "str"
IsList(x) == x[1] = "list"

\* {} : the empty dict, as a function with an empty domain
EmptyDict == [k \in {} |-> None]

\* d[k] = v on a dict held as a function
DictSet(d, k, v) == [x \in (DOMAIN d) \cup {k} |-> IF x = k THEN v ELSE d[x]]

\* d.get(k)
DictGet(d, k) == IF k \in DOMAIN d THEN d[k] ELSE None

(***************************************************************************)
(* Characters and str methods.                                             *)
(***************************************************************************)
Whitespace == {" ", "\t", "\n", "\r"}
Digits == {"0","1","2","3","4","5","6","7","8","9"}
Lower == {"a","b","c","d","e","f","g","h","i","j","k","l","m","n","o","p","q","r","s","t","u","v","w","x","y","z"}
Upper == {"A","B","C","D","E","F","G","H","I","J","K","L","M","N","O","P","Q","R","S","T","U","V","W","X","Y","Z"}
WordChars == Lower \cup Upper \cup Digits \cup {"_"}
NameChars == Lower \cup Upper \cup Digits \cup {"_", ".", "-"}

RECURSIVE LStrip(_)
LStrip(s) == IF s # <<>> /\ Head(s) \in Whitespace THEN LStrip(Tail(s)) ELSE s

RECURSIVE RStrip(_)
RStrip(s) ==
    IF s # <<>> /\ s[Len(s)] \in Whitespace THEN RStrip(SubSeq(s, 1, Len(s) - 1)) ELSE s

\* str.strip()
Strip(s) == RStrip(LStrip(s))

\* f'{x}' for the values this layer formats: a str is itself, None is "None"
Format(x) == IF IsStr(x) THEN x[2] ELSE <<"N","o","n","e">>

\* f'{key}-{variable_type}'
NameType(key, variable_type) == Format(key) \o <<"-">> \o Format(variable_type)

\* first position p >= from with s[p] = c, 0 when there is none
RECURSIVE IndexOf(_, _, _)
IndexOf(s, c, from) ==
    IF from > Len(s) THEN 0
    ELSE IF s[from] = c THEN from
    ELSE IndexOf(s, c, from + 1)

(***************************************************************************)
(* Variable grammar  #App:<job_id>:<name>!<type>  and the type classifier. *)
(***************************************************************************)
AppPrefix == <<"#","A","p","p",":">>
TString == <<"S","t","r","i","n","g">>
TBinary == <<"B","i","n","a","r","y">>
TKeyValue == <<"K","e","y","V","a","l","u","e">>
TTCEntity == <<"T","C","E","n","t","i","t","y">>
TTCEnhancedEntity == <<"T","C","E","n","h","a","n","c","e","d","E","n","t","i","t","y">>
TArray == <<"A","r","r","a","y">>

_variable_single_types ==
    {Str(TString), Str(TBinary), Str(TKeyValue), Str(TTCEntity), Str(TTCEnhancedEntity)}

_variable_array_types ==
    {Str(TString \o TArray), Str(TBinary \o TArray), Str(TKeyValue \o TArray),
     Str(TTCEntity \o TArray), Str(TTCEnhancedEntity \o TArray)}

\* last position q such that s[from..q] are all in chars (from - 1 when none is)
RECURSIVE RunEnd(_, _, _)
RunEnd(s, from, chars) ==
    IF from <= Len(s) /\ s[from] \in chars THEN RunEnd(s, from + 1, chars) ELSE from - 1

\* s[p] exists and is c
CharAt(s, p, c) == p <= Len(s) /\ s[p] = c

\* where the variable pattern, matched at position p of s, ends; 0 when it does not match
MatchEndAt(s, p) ==
    LET j0 == p + Len(AppPrefix)
        j1 == RunEnd(s, j0, Digits)
        n1 == RunEnd(s, j1 + 2, NameChars)
        t1 == RunEnd(s, n1 + 2, WordChars)
    IN  IF /\ j0 - 1 <= Len(s)
           /\ SubSeq(s, p, j0 - 1) = AppPrefix
           /\ j1 >= j0 /\ CharAt(s, j1 + 1, ":")
           /\ n1 >= j1 + 2 /\ CharAt(s, n1 + 1, "!")
           /\ t1 >= n1 + 2
        THEN t1 ELSE 0

\* position of the ':' closing the job id and of the '!' closing the name
JobEnd(s) == IndexOf(s, ":", Len(AppPrefix) + 1)
NameEnd(s) == IndexOf(s, "!", JobEnd(s) + 1)

\* re.match(self._variable_match, s): the whole of s is one variable
_variable_match(s) == s # <<>> /\ MatchEndAt(s, 1) = Len(s)

\* re.search(self._variable_parse, s).group(n) on a string that matches
_variable_parse(s, n) ==
    CASE n = 0 -> s
      [] n = 2 -> SubSeq(s, Len(AppPrefix) + 1, JobEnd(s) - 1)
      [] n = 3 -> SubSeq(s, JobEnd(s) + 1, NameEnd(s) - 1)
      [] n = 4 -> SubSeq(s, NameEnd(s) + 1, Len(s))

\* Playbook.is_variable
is_variable(key) == IsStr(key) /\ _variable_match(key[2])

\* parse_variable taking group 3 for the job id and group 2 for the name
parse_variable_groups_swapped(variable) ==
    IF IsNone(variable) THEN None
    ELSE IF _variable_match(Strip(variable[2]))
         THEN Dict([root |-> Str(_variable_parse(Strip(variable[2]), 0)),
                    job_id |-> Str(_variable_parse(Strip(variable[2]), 3)),
                    name |-> Str(_variable_parse(Strip(variable[2]), 2)),
                    type |-> Str(_variable_parse(Strip(variable[2]), 4))])
         ELSE None

\* Playbook.parse_variable, line 369: variable.strip() on a value that is
\* neither None nor a str raises AttributeError
parse_variable_raises(variable) == ~IsNone(variable) /\ ~IsStr(variable)

\* Playbook.parse_variable: a dict of root, job_id, name, type, or None
parse_variable(variable) ==
    IF IsNone(variable) THEN None
    ELSE IF _variable_match(Strip(variable[2]))
         THEN Dict([root |-> Str(_variable_parse(Strip(variable[2]), 0)),
                    job_id |-> Str(_variable_parse(Strip(variable[2]), 2)),
                    name |-> Str(_variable_parse(Strip(variable[2]), 3)),
                    type |-> Str(_variable_parse(Strip(variable[2]), 4))])
         ELSE None

\* Playbook.variable_type
variable_type(variable) ==
    IF IsStr(variable) /\ _variable_match(Strip(variable[2]))
    THEN Str(_variable_parse(Strip(variable[2]), 4))
    ELSE Str(TString)

(***************************************************************************)
(* The engine's state as the methods thread it: the two memoized indexes,  *)
(* the store, the keys for which the store adapter's put raises, and the   *)
(* trace of the call in progress.                                          *)
(***************************************************************************)
Self == [context |-> _context,
         byn |-> _output_variables_by_name,
         byt |-> _output_variables_by_type,
         kv |-> kv,
         put_raises |-> {},
         trace |-> <<>>]

\* what a method hands back: the state it leaves, its return value, its exception
Result(S, r, e) == [S |-> S, ret |-> r, raised |-> e]

Event(ev, key, value, type) ==
    [ev |-> ev, key |-> key, value |-> value, type |-> type, context |-> None]

\* a call of the store adapter, made with the engine's context
StoreEvent(S, ev, key, value) ==
    [ev |-> ev, key |-> key, value |-> value, type |-> None, context |-> S.context]

\* the call in progress recorded in the trace
Traced(S, e) == [S EXCEPT !.trace = Append(S.trace, e)]

\* acknowledgment of the store adapter's put
Ack == Str(<<"O","K">>)

\* key_value_store.create(self._context, key, value)
kv_put(S, key, value) ==
    IF key \in S.put_raises
    THEN Result(Traced(S, StoreEvent(S, "put", key, value)), None, "StoreError")
    ELSE Result([S EXCEPT !.kv = DictSet(S.kv, key[2], value),
                          !.trace = Append(S.trace, StoreEvent(S, "put", key, value))],
                Ack, "")

\* PlaybookABC._create: the scalar write path
_create(S, key, value) ==
    kv_put(Traced(S, Event("_create", key, value, None)), Str(Strip(key[2])), value)

\* PlaybookABC._create_array: the array write path
_create_array(S, key, value) ==
    kv_put(Traced(S, Event("_create_array", key, value, None)), Str(Strip(key[2])), value)

\* PlaybookABC.create_raw: the raw write path
create_raw(S, key, value) ==
    kv_put(Traced(S, Event("create_raw", key, value, None)), Str(Strip(key[2])), value)

\* key_value_store.delete(self._context, key): the key is gone from the store
kv_delete(S, key) ==
    Result([S EXCEPT !.kv = [k \in DOMAIN S.kv \ {key[2]} |-> S.kv[k]],
                     !.trace = Append(S.trace, StoreEvent(S, "delete", key, None))],
           IF key[2] \in DOMAIN S.kv THEN Ack ELSE None, "")

\* delete handing the key to the store as it came
delete_unstripped(S, key) ==
    IF IsNone(key) THEN Result(S, None, "")
    ELSE kv_delete(S, key)

\* Playbook.delete
delete(S, key) ==
    IF IsNone(key) THEN Result(S, None, "")
    ELSE kv_delete(S, Str(Strip(key[2])))

\* PlaybookABC.__init__: self._output_variables = output_variables or []
_output_variables == IF IsNone(output_variables) THEN <<>> ELSE output_variables[2]

\* one requested variable entered in both indexes under its parsed name and type
IndexVariable(p, variable, parsed) ==
    [byn |-> DictSet(p.byn, parsed.name[2], [variable |-> variable]),
     byt |-> DictSet(p.byt, NameType(parsed.name, parsed.type), [variable |-> variable])]

\* PlaybookABC._parse_output_variables, from the i-th requested variable on
RECURSIVE ParseFrom(_, _, _, _)
ParseFrom(S, ovs, i, p) ==
    IF i > Len(ovs) THEN [S EXCEPT !.byn = Dict(p.byn), !.byt = Dict(p.byt)]
    ELSE ParseFrom(S, ovs, i + 1, IndexVariable(p, ovs[i], parse_variable(ovs[i])[2]))

_parse_output_variables(S) ==
    ParseFrom(Traced(S, Event("_parse_output_variables", None, None, None)),
              _output_variables, 1, [byn |-> EmptyDict, byt |-> EmptyDict])

\* output_variables_by_name parsing on every access
output_variables_by_name_reparses(S) == _parse_output_variables(S)

\* property Playbook.output_variables_by_name: the state after the access
output_variables_by_name(S) == IF IsNone(S.byn) THEN _parse_output_variables(S) ELSE S

\* property Playbook.output_variables_by_type: the state after the access
output_variables_by_type(S) == IF IsNone(S.byt) THEN _parse_output_variables(S) ELSE S

\* create_parsed without the branch of the array types
create_parsed_drops_array(S, key, parsed_key, value) ==
    IF IsNone(parsed_key) THEN Result(S, None, "TypeError")
    ELSE IF parsed_key[2].type \in _variable_single_types THEN _create(S, key, value)
    ELSE IF parsed_key[2].type \in _variable_array_types THEN Result(S, None, "")
    ELSE create_raw(S, key, value)

\* Playbook.create, lines 138-146: the write path chosen by the parsed type
create_parsed(S, key, parsed_key, value) ==
    IF IsNone(parsed_key) THEN Result(S, None, "TypeError")
    ELSE IF parsed_key[2].type \in _variable_single_types THEN _create(S, key, value)
    ELSE IF parsed_key[2].type \in _variable_array_types THEN _create_array(S, key, value)
    ELSE create_raw(S, key, value)

\* Playbook.create
create(S, key, value) ==
    IF IsNone(key) THEN Result(S, None, "")
    ELSE create_parsed(S, Str(Strip(key[2])), parse_variable(Str(Strip(key[2]))), value)

\* the guard of a strict creator also accepting the array form of its type
create_strict_array_form(S, key, value, supported, array) ==
    IF /\ variable_type(key) \notin supported
       /\ variable_type(key) \notin {Str(t[2] \o TArray) : t \in supported}
    THEN Result(S, None, "RuntimeError")
    ELSE IF array THEN _create_array(S, key, value) ELSE _create(S, key, value)

\* lines 148-266: what the strict creators share, the guard on the type the
\* key declares and the write path taken when it is a supported one
create_strict(S, key, value, supported, array) ==
    IF variable_type(key) \notin supported THEN Result(S, None, "RuntimeError")
    ELSE IF array THEN _create_array(S, key, value) ELSE _create(S, key, value)

\* Playbook.create_binary .. Playbook.create_tc_entity_array
create_binary(S, key, value) == create_strict(S, key, value, {Str(TBinary)}, FALSE)
create_binary_array(S, key, value) ==
    create_strict(S, key, value, {Str(TBinary \o TArray)}, TRUE)
create_key_value(S, key, value) == create_strict(S, key, value, {Str(TKeyValue)}, FALSE)
create_key_value_array(S, key, value) ==
    create_strict(S, key, value, {Str(TKeyValue \o TArray)}, TRUE)
create_string(S, key, value) == create_strict(S, key, value, {Str(TString)}, FALSE)
create_string_array(S, key, value) ==
    create_strict(S, key, value, {Str(TString \o TArray)}, TRUE)
create_tc_entity(S, key, value) == create_strict(S, key, value, {Str(TTCEntity)}, FALSE)
create_tc_entity_array(S, key, value) ==
    create_strict(S, key, value,
                  {Str(TTCEntity \o TArray), Str(TTCEnhancedEntity),
                   Str(TTCEnhancedEntity \o TArray)},
                  TRUE)

\* create_output_lookup accepting the bare name also when a type was supplied
create_output_lookup_any_type(S, S2, key, key_type, value, type) ==
    IF key_type \in DOMAIN S.byt[2]
    THEN create(S, S.byt[2][key_type].variable, value)
    ELSE IF key[2] \in DOMAIN S2.byn[2]
    THEN create(S2, S2.byn[2][key[2]].variable, value)
    ELSE Result(S2, None, "")

\* create_output_lookup writing under the caller's key
create_output_lookup_bare_key(S, S2, key, key_type, value, type) ==
    IF key_type \in DOMAIN S.byt[2]
    THEN create_raw(S, key, value)
    ELSE IF key[2] \in DOMAIN S2.byn[2] /\ IsNone(type)
    THEN create_raw(S2, key, value)
    ELSE Result(S2, None, "")

\* create_output_lookup trying the bare name before the name-type entry
create_output_lookup_name_first(S, S2, key, key_type, value, type) ==
    IF key[2] \in DOMAIN S2.byn[2] /\ IsNone(type)
    THEN create(S2, S2.byn[2][key[2]].variable, value)
    ELSE IF key_type \in DOMAIN S.byt[2]
    THEN create(S, S.byt[2][key_type].variable, value)
    ELSE Result(S2, None, "")

\* Playbook.create_output, lines 298-312: the lookup of the stripped key and of
\* key_type, S2 being the state the access to output_variables_by_name leaves
create_output_lookup(S, S2, key, key_type, value, type) ==
    IF key_type \in DOMAIN S.byt[2]
    THEN create(S, S.byt[2][key_type].variable, value)
    ELSE IF key[2] \in DOMAIN S2.byn[2] /\ IsNone(type)
    THEN create(S2, S2.byn[2][key[2]].variable, value)
    ELSE Result(S2, None, "")

\* create_output_checked without the check of a None value
create_output_none_value(S, key, value, type) ==
    IF DOMAIN S.byt[2] = {} THEN Result(S, None, "")
    ELSE IF IsNone(key) THEN Result(S, None, "")
    ELSE create_output_lookup(S, output_variables_by_name(S), Str(Strip(key[2])),
                              NameType(Str(Strip(key[2])), type), value, type)

\* Playbook.create_output, lines 283-296, on the state S that the access to
\* output_variables_by_type leaves
create_output_checked(S, key, value, type) ==
    IF DOMAIN S.byt[2] = {} THEN Result(S, None, "")
    ELSE IF IsNone(key) THEN Result(S, None, "")
    ELSE IF IsNone(value) THEN Result(S, None, "")
    ELSE create_output_lookup(S, output_variables_by_name(S), Str(Strip(key[2])),
                              NameType(Str(Strip(key[2])), type), value, type)

\* Playbook.create_output
create_output(S, key, value, type) ==
    create_output_checked(
        output_variables_by_type(Traced(S, Event("create_output", key, value, type))),
        key, value, type)

\* Playbook.check_output_variable
check_output_variable(S, variable) ==
    Result(output_variables_by_name(S),
           PyBool(variable[2] \in DOMAIN output_variables_by_name(S).byn[2]), "")

(***************************************************************************)
(* The output buffer: self.output_data, a dict that keeps insertion order, *)
(* held as the sequence of its items [index, data].                        *)
(***************************************************************************)
HasIndex(od, index) == \E i \in 1..Len(od) : od[i].index = index
PosOf(od, index) == CHOOSE i \in 1..Len(od) : od[i].index = index

\* self.output_data.setdefault(index, {})
OdSetDefault(od, index) ==
    IF HasIndex(od, index) THEN od ELSE Append(od, [index |-> index, data |-> EmptyDict])

\* self.output_data[index]
OdGet(od, index) == od[PosOf(od, index)].data

\* self.output_data[index] = data, on an index the dict holds
OdSet(od, index, data) == [od EXCEPT ![PosOf(od, index)].data = data]

\* d.setdefault(k, v) on a record of the buffer
DictSetDefault(d, k, v) == IF k \in DOMAIN d THEN d ELSE DictSet(d, k, v)

\* Contribution appending a list as one element
ContributionAppendOnly(value) == <<value>>

\* lines 94-97: value.extend(value) for a list, value.append(value) otherwise
Contribution(value) == IF IsList(value) THEN value[2] ELSE <<value>>

\* lines 91-97: the append branch of add_output on the record under index
add_output_append(od, index, key, value, type) ==
    LET d1 == DictSetDefault(OdGet(od, index), "key", key)
        d2 == DictSetDefault(d1, "type", type)
        d3 == DictSetDefault(d2, "value", List(<<>>))
    IN  IF IsList(d3.value)
        THEN [od |-> OdSet(od, index,
                           [d3 EXCEPT !.value = List(d3.value[2] \o Contribution(value))]),
              raised |-> ""]
        ELSE [od |-> OdSet(od, index, d3), raised |-> "AttributeError"]

\* add_output keeping what the record under the index already holds
add_output_keeps_record(od0, key, value, type, append_array) ==
    LET index == NameType(key, type)
        od == OdSetDefault(od0, index)
    IN  IF IsNone(value) /\ type \notin _variable_array_types
        THEN [od |-> od, raised |-> ""]
        ELSE IF IsNone(value) /\ ~append_array /\ type \in _variable_array_types
        THEN [od |-> od, raised |-> ""]
        ELSE IF type \in _variable_array_types /\ append_array
        THEN add_output_append(od, index, key, value, type)
        ELSE [od |-> OdSet(od, index,
                           DictSetDefault(
                               DictSetDefault(DictSetDefault(OdGet(od, index), "key", key),
                                              "type", type),
                               "value", value)),
              raised |-> ""]

\* Playbook.add_output: the buffer it leaves and the exception it raises
add_output(od0, key, value, type, append_array) ==
    LET index == NameType(key, type)
        od == OdSetDefault(od0, index)
    IN  IF IsNone(value) /\ type \notin _variable_array_types
        THEN [od |-> od, raised |-> ""]
        ELSE IF IsNone(value) /\ ~append_array /\ type \in _variable_array_types
        THEN [od |-> od, raised |-> ""]
        ELSE IF type \in _variable_array_types /\ append_array
        THEN add_output_append(od, index, key, value, type)
        ELSE [od |-> OdSet(od, index, [key |-> key, type |-> type, value |-> value]),
              raised |-> ""]

RECURSIVE write_output_from(_, _, _)

\* write_output_next going on with the loop whatever create_output raised
write_output_next_suppresses(r, od, i) == write_output_from(r.S, od, i + 1)

\* the loop of write_output once the i-th record was handed to create_output
write_output_next(r, od, i) ==
    IF r.raised # "" THEN Result(r.S, None, r.raised)
    ELSE write_output_from(r.S, od, i + 1)

\* Playbook.write_output, lines 669-670: the loop from the i-th buffered record on
write_output_from(S, od, i) ==
    IF i > Len(od) THEN Result(S, None, "")
    ELSE write_output_next(create_output(S, DictGet(od[i].data, "key"),
                                         DictGet(od[i].data, "value"),
                                         DictGet(od[i].data, "type")),
                           od, i)

\* the items of od, last first
RECURSIVE Reversed(_)
Reversed(od) == IF od = <<>> THEN <<>> ELSE Append(Reversed(Tail(od)), Head(od))

\* what a method leaves, with the buffer it leaves
WithBuffer(r, od) == [S |-> r.S, ret |-> r.ret, raised |-> r.raised, od |-> od]

\* write_output walking the buffer from its last record to its first
write_output_reversed(S, od) == WithBuffer(write_output_from(S, Reversed(od), 1), od)

\* write_output clearing the buffer once flushed
write_output_clearing(S, od) == WithBuffer(write_output_from(S, od, 1), <<>>)

\* Playbook.write_output: its result and the buffer it leaves
write_output(S, od) == WithBuffer(write_output_from(S, od, 1), od)

(***************************************************************************)
(* Reading.                                                                *)
(***************************************************************************)
\* key_value_store.read(self._context, key)
kv_get(S, key) ==
    Result([S EXCEPT !.trace = Append(S.trace, StoreEvent(S, "get", key, None))],
           DictGet(S.kv, key[2]), "")

\* re.sub(r'(?<!\\)\\s', ' ', value) from position p on
RECURSIVE SubSpace(_, _)
SubSpace(s, p) ==
    IF p > Len(s) THEN <<>>
    ELSE IF /\ s[p] = "\\" /\ CharAt(s, p + 1, "s")
            /\ (p = 1 \/ s[p - 1] # "\\")
         THEN <<" ">> \o SubSpace(s, p + 2)
         ELSE <<s[p]>> \o SubSpace(s, p + 1)

\* re.sub(r'\\\\s', r'\\s', value) from position p on
RECURSIVE SubEscaped(_, _)
SubEscaped(s, p) ==
    IF p > Len(s) THEN <<>>
    ELSE IF s[p] = "\\" /\ CharAt(s, p + 1, "\\") /\ CharAt(s, p + 2, "s")
         THEN <<"\\", "s">> \o SubEscaped(s, p + 3)
         ELSE <<s[p]>> \o SubEscaped(s, p + 1)

\* re.sub(r'\\s', ' ', value), the pattern without its lookbehind, from p on
RECURSIVE SubSpaceAll(_, _)
SubSpaceAll(s, p) ==
    IF p > Len(s) THEN <<>>
    ELSE IF s[p] = "\\" /\ CharAt(s, p + 1, "s")
         THEN <<" ">> \o SubSpaceAll(s, p + 2)
         ELSE <<s[p]>> \o SubSpaceAll(s, p + 1)

\* literal_escapes replacing every backslash-s, escaped or not
literal_escapes_no_lookbehind(s) == SubEscaped(SubSpaceAll(s, 1), 1)

\* lines 413-414 of read
literal_escapes(s) == SubEscaped(SubSpace(s, 1), 1)

RECURSIVE read_value(_, _, _, _)
RECURSIVE _read_embedded_from(_, _, _, _, _)

\* PlaybookABC._read_embedded once the variable embedded in s[p..e] was read as
\* r: a str replaces the variable, any other value leaves it as written
_read_embedded_sub(r, s, p, e, out, fuel) ==
    IF r.raised # "" THEN Result(r.S, None, r.raised)
    ELSE _read_embedded_from(r.S, s, e + 1,
                             out \o (IF IsStr(r.ret) THEN r.ret[2] ELSE SubSeq(s, p, e)),
                             fuel)

\* PlaybookABC._read_embedded on the characters of s from position p on, out
\* being the text produced so far: each embedded variable is read through read()
_read_embedded_from(S, s, p, out, fuel) ==
    IF p > Len(s) THEN Result(S, Str(out), "")
    ELSE IF MatchEndAt(s, p) = 0
    THEN _read_embedded_from(S, s, p + 1, Append(out, s[p]), fuel)
    ELSE IF fuel = 0 THEN Result(S, None, "RecursionError")
    ELSE _read_embedded_sub(
             read_value(S, Str(SubSeq(s, p, MatchEndAt(s, p))), TRUE, fuel - 1),
             s, p, MatchEndAt(s, p), out, fuel)

\* PlaybookABC._read_embedded on a value: only a str holds embedded variables
_read_embedded(S, value, fuel) ==
    IF ~IsStr(value) THEN Result(S, value, "")
    ELSE _read_embedded_from(S, value[2], 1, <<>>, fuel)

RECURSIVE _read_embedded_items(_, _, _, _, _)

\* the items of a stored list once the i-th was resolved as r
_read_embedded_items_next(r, l, i, out, fuel) ==
    IF r.raised # "" THEN Result(r.S, None, r.raised)
    ELSE _read_embedded_items(r.S, l, i + 1, Append(out, r.ret), fuel)

\* _read_embedded on each item of a stored list, from the i-th on, out being
\* the items resolved so far
_read_embedded_items(S, l, i, out, fuel) ==
    IF i > Len(l) THEN Result(S, List(out), "")
    ELSE _read_embedded_items_next(_read_embedded(S, l[i], fuel), l, i, out, fuel)

\* PlaybookABC._read: the scalar read path, embedded variables resolved on demand
_read(S, key, embedded, fuel) ==
    IF embedded THEN _read_embedded(kv_get(S, key).S, kv_get(S, key).ret, fuel)
    ELSE kv_get(S, key)

\* PlaybookABC._read_array: the array read path, the embedded variables of the
\* items of a list resolved on demand
_read_array(S, key, embedded, fuel) ==
    IF embedded /\ IsList(kv_get(S, key).ret)
    THEN _read_embedded_items(kv_get(S, key).S, kv_get(S, key).ret[2], 1, <<>>, fuel)
    ELSE kv_get(S, key)

\* PlaybookABC.read_raw: the raw read path
read_raw(S, key) == kv_get(S, key)

\* Playbook.read, lines 413-416: a key that is no variable, read as a literal
read_literal(S, value, embedded, fuel) ==
    IF embedded THEN _read_embedded(S, value, fuel) ELSE Result(S, value, "")

\* Playbook.read, lines 398-416, on the stripped key and its variable type
read_dispatch(S, value, key, type, embedded, fuel) ==
    IF _variable_match(key[2])
    THEN IF type \in _variable_single_types THEN _read(S, key, embedded, fuel)
         ELSE IF type \in _variable_array_types THEN _read_array(S, key, embedded, fuel)
         ELSE read_raw(S, key)
    ELSE read_literal(S,
                      IF type = Str(TString) THEN Str(literal_escapes(value[2])) ELSE value,
                      embedded, fuel)

\* read_value taking a key that is not a str for a key the store does not hold
read_value_non_string_none(S, key, embedded, fuel) ==
    IF ~IsStr(key) THEN Result(S, None, "")
    ELSE read_dispatch(S, key, Str(Strip(key[2])), variable_type(Str(Strip(key[2]))),
                       embedded, fuel)

\* Playbook.read, lines 395-418: the local `value` when the array coercion is reached
read_value(S, key, embedded, fuel) ==
    IF ~IsStr(key) THEN Result(S, key, "")
    ELSE read_dispatch(S, key, Str(Strip(key[2])), variable_type(Str(Strip(key[2]))),
                       embedded, fuel)

\* read_as_list wrapping None like any other value
read_as_list_wraps_none(value) == IF ~IsList(value) THEN List(<<value>>) ELSE value

\* Playbook.read, lines 420-429: return data as a list
read_as_list(value) ==
    IF ~IsList(value)
    THEN IF ~IsNone(value) THEN List(<<value>>) ELSE List(<<>>)
    ELSE value

\* Playbook.read, lines 420-429: what is returned for the local `value` of r
read_return(r, array) ==
    [S |-> r.S,
     ret |-> IF r.raised # "" THEN None
             ELSE IF array THEN read_as_list(r.ret) ELSE r.ret,
     raised |-> r.raised,
     value |-> r.ret]

\* Playbook.read: its result, with the local `value` it coerced
read(S, key, array, embedded) ==
    read_return(read_value(S, key, embedded, RecursionLimit), array)

(***************************************************************************)
(* Entity projections.                                                     *)
(***************************************************************************)
IsDict(x) == x[1] = "dict"

\* d.get(k, default) on a dict value
PyGet(d, k, default) == IF k \in DOMAIN d[2] THEN d[2][k] ELSE default

UpperSeq == <<"A","B","C","D","E","F","G","H","I","J","K","L","M","N","O","P","Q","R","S","T","U","V","W","X","Y","Z">>
LowerSeq == <<"a","b","c","d","e","f","g","h","i","j","k","l","m","n","o","p","q","r","s","t","u","v","w","x","y","z">>

\* str.lower()
ToLower(s) ==
    [i \in 1..Len(s) |-> IF s[i] \in Upper THEN LowerSeq[IndexOf(UpperSeq, s[i], 1)] ELSE s[i]]

VALID_ENTITY_TYPES == {"group", "indicator"}

\* lines 460-463: the field that stands for `value` in a TCEnhancedEntityArray
enhanced_entity_field(entity_type, field) ==
    IF entity_type = "indicator" /\ field = "value" THEN Str(<<"s","u","m","m","a","r","y">>)
    ELSE IF entity_type = "group" /\ field = "value" THEN Str(<<"n","a","m","e">>)
    ELSE None

\* the name of a field of a dict, as the str the code holds it in
FieldName(f) ==
    CASE f = Str(<<"s","u","m","m","a","r","y">>) -> "summary"
      [] f = Str(<<"n","a","m","e">>) -> "name"

\* entity_values with None where an element lacks the field
entity_values_null_default(S, read_results, field, default) ==
    IF \E i \in 1..Len(read_results[2]) : ~IsDict(read_results[2][i])
    THEN Result(S, None, "AttributeError")
    ELSE Result(S,
                List([i \in 1..Len(read_results[2]) |->
                          PyGet(read_results[2][i], field, None)]),
                "")

\* [i.get(field, default) for i in read_results]; i.get raises AttributeError
\* on an element that is no dict
entity_values(S, read_results, field, default) ==
    IF \E i \in 1..Len(read_results[2]) : ~IsDict(read_results[2][i])
    THEN Result(S, None, "AttributeError")
    ELSE Result(S,
                List([i \in 1..Len(read_results[2]) |->
                          PyGet(read_results[2][i], field, default)]),
                "")

\* Playbook._entity_field, lines 472-485: the projection of the elements
_entity_field_values(S, read_results, enhanced_field, vtype, field, default) ==
    IF /\ ~IsNone(enhanced_field)
       /\ vtype \in {ToLower(TTCEnhancedEntity), ToLower(TTCEnhancedEntity \o TArray)}
    THEN entity_values(S, read_results, FieldName(enhanced_field), default)
    ELSE IF vtype \in {ToLower(TTCEntity), ToLower(TTCEntity \o TArray)}
    THEN entity_values(S, read_results, field, default)
    ELSE Result(S, read_results, "")

\* Playbook._entity_field, lines 448-470, on what read(key, array=True) gave
_entity_field_results(r, vtype, field, entity_type, default) ==
    IF r.raised # "" THEN Result(r.S, None, r.raised)
    ELSE IF r.ret[2] = <<>> THEN Result(r.S, List(<<>>), "")
    ELSE IF vtype = ToLower(TTCEnhancedEntity \o TArray)
    THEN IF entity_type \notin VALID_ENTITY_TYPES THEN Result(r.S, None, "RuntimeError")
         ELSE IF ~IsDict(r.ret[2][1]) THEN Result(r.S, None, "AttributeError")
         ELSE _entity_field_values(r.S, PyGet(r.ret[2][1], entity_type, List(<<>>)),
                                   enhanced_entity_field(entity_type, field),
                                   vtype, field, default)
    ELSE _entity_field_values(r.S, r.ret, None, vtype, field, default)

\* Playbook._entity_field
_entity_field(S, key, field, entity_type, default) ==
    _entity_field_results(read(S, key, TRUE, TRUE), ToLower(variable_type(key)[2]),
                          field, entity_type, default)

\* Playbook.read_indicator_values
read_indicator_values(S, key, default) == _entity_field(S, key, "value", "indicator", default)

\* Playbook.read_group_values
read_group_values(S, key, default) == _entity_field(S, key, "value", "group", default)

\* Playbook.read_group_ids
read_group_ids(S, key, default) == _entity_field(S, key, "id", "group", default)

\* the two sentinels of a choice input
ChoiceSelect == <<"-","-"," ","S","e","l","e","c","t"," ","-","-">>
ChoiceVariableInput ==
    <<"-","-"," ","V","a","r","i","a","b","l","e"," ","I","n","p","u","t"," ","-","-">>

\* what a method that returns before it reads anything hands back
Unread(S, e) == [S |-> S, ret |-> None, raised |-> e, value |-> None]

\* read_choice resolving key also when the variable input was chosen
read_choice_ignores_alt_key(S, key, alt_key) ==
    IF IsNone(key) THEN Unread(S, "")
    ELSE IF ~IsStr(key) THEN Unread(S, "AttributeError")
    ELSE IF Strip(key[2]) = ChoiceSelect THEN Unread(S, "")
    ELSE read(S, key, FALSE, TRUE)

\* Playbook.read_choice; key.strip() raises AttributeError on a key that is
\* neither None nor a str
read_choice(S, key, alt_key) ==
    IF IsNone(key) THEN Unread(S, "")
    ELSE IF ~IsStr(key) THEN Unread(S, "AttributeError")
    ELSE IF Strip(key[2]) = ChoiceSelect THEN Unread(S, "")
    ELSE IF Strip(key[2]) = ChoiceVariableInput THEN read(S, alt_key, FALSE, TRUE)
    ELSE read(S, key, FALSE, TRUE)

(***************************************************************************)
(* Inputs of the calls.                                                    *)
(***************************************************************************)
\* '#App:<job_id>:<name>!<type>'
Variable(job_id, name, type) == Str(AppPrefix \o job_id \o <<":">> \o name \o <<"!">> \o type)

xString == Variable(<<"1">>, <<"x">>, TString)
xStringArray == Variable(<<"1">>, <<"x">>, TString \o TArray)
xNone == Variable(<<"1">>, <<"x">>, <<"N","o","n","e">>)
yString == Variable(<<"1">>, <<"y">>, TString)
xRaw == Variable(<<"1">>, <<"x">>, <<"R","a","w">>)

a == Str(<<"a">>)
b == Str(<<"b">>)

\* the contexts a Playbook is constructed with
Context1 == Str(<<"c", "1">>)
Context2 == Str(<<"c", "2">>)

\* the output_variables a Playbook is constructed with, for the create_output calls
GateOutputVariables ==
    {None, List(<<>>), List(<<xString>>), List(<<xStringArray>>),
     List(<<xString, xStringArray>>), List(<<xStringArray, xString>>),
     List(<<xNone, xString>>), List(<<yString, xStringArray>>)}

GateKeys == {None, Str(<<"x">>), Str(<<" ", "x", " ">>), Str(<<"y">>)}
GateValues == {None, a, List(<<a>>)}
GateTypes == {None, Str(TString), Str(TString \o TArray)}

\* the output_variables a Playbook is constructed with, for the buffered outputs
BufferOutputVariables == {List(<<>>), List(<<yString>>), List(<<xStringArray, yString>>)}

\* key and variable_type of the add_output calls
AddOutputTargets == {<<Str(<<"x">>), Str(TString \o TArray)>>, <<Str(<<"y">>), Str(TString)>>}
AddOutputValues == {None, a, List(<<b>>)}

(***************************************************************************)
(* The calls.                                                              *)
(***************************************************************************)
Call(op, key, value, type, flags) ==
    [op |-> op, key |-> key, value |-> value, type |-> type, flags |-> flags]

\* the engine takes over what a method left
Commit(r) ==
    /\ _output_variables_by_name' = r.S.byn
    /\ _output_variables_by_type' = r.S.byt
    /\ kv' = r.S.kv
    /\ trace' = r.S.trace
    /\ ret' = r.ret
    /\ raised' = r.raised

CreateOutputCall ==
    \E key \in GateKeys, value \in GateValues, type \in GateTypes :
        /\ call' = Call("create_output", key, value, type, <<>>)
        /\ Commit(create_output(Self, key, value, type))
        /\ UNCHANGED <<cache, _context, output_variables, output_data, value_local>>

CheckOutputVariableCall ==
    \E variable \in {Str(<<"x">>), Str(<<"y">>)} :
        /\ call' = Call("check_output_variable", variable, None, None, <<>>)
        /\ Commit(check_output_variable(Self, variable))
        /\ UNCHANGED <<cache, _context, output_variables, output_data, value_local>>

\* no buffered list is longer than MaxLen
WithinMaxLen(od) ==
    \A i \in 1..Len(od) :
        ("value" \in DOMAIN od[i].data /\ IsList(od[i].data.value))
            => Len(od[i].data.value[2]) <= MaxLen

AddOutputCall ==
    \E target \in AddOutputTargets, value \in AddOutputValues, append_array \in BOOLEAN :
        LET r == add_output(output_data, target[1], value, target[2], append_array)
        IN  /\ WithinMaxLen(r.od)
            /\ call' = Call("add_output", target[1], value, target[2], <<append_array>>)
            /\ output_data' = r.od
            /\ ret' = None
            /\ raised' = r.raised
            /\ trace' = <<>>
            /\ UNCHANGED <<cache, _context, output_variables, _output_variables_by_name,
                           _output_variables_by_type, kv, value_local>>

\* the engine takes over what a method left, buffer included
CommitBuffer(r) == Commit(r) /\ output_data' = r.od

WriteOutputCall ==
    /\ call' = Call("write_output", None, None, None, <<>>)
    /\ CommitBuffer(write_output(Self, output_data))
    /\ UNCHANGED <<cache, _context, output_variables, value_local>>

(***************************************************************************)
(* cached_property_filesystem (tcex/pleb): a property cached in the        *)
(* instance (layer 1) and in a file per class and property name (layer 2), *)
(* each entry stamped with the time of its computation.                    *)
(***************************************************************************)
\* the instances of the decorated classes: two Counter, a ShortTTL, a MultiProp
ClassOf(obj) ==
    CASE obj \in {"a", "b"} -> "Counter"
      [] obj = "s" -> "ShortTTL"
      [] obj = "m" -> "MultiProp"

\* the decorated properties, by instance
Descriptors ==
    {<<"a", "value">>, <<"b", "value">>, <<"s", "value">>, <<"m", "alpha">>, <<"m", "beta">>}

\* the ttl argument of the decorator of a property of the class
ttl(class) == IF class = "ShortTTL" THEN 1 ELSE 86400

\* _cache_path leaving the class name out of the file name
_cache_path_without_class(obj, attr) == <<"Counter", attr>>

\* cached_property_filesystem._cache_path: <tempdir>/tcex_cache/<Class>_<attr>.pkl
_cache_path(obj, attr) == <<ClassOf(obj), attr>>

NoEntry == [timestamp |-> -1, value |-> <<>>]
\* a cache file that does not unpickle
Unreadable == [bytes |-> <<>>]
CacheFiles == {"Counter", "ShortTTL", "MultiProp"} \X {"value", "alpha", "beta"}

\* what the decorated function returns on its n-th call on an instance
Computed(attr, n) == <<attr, n>>

\* IsFresh taking every entry that can be read for valid
IsFresh_ignores_ttl(entry, now, class) == DOMAIN entry = {"timestamp", "value"} /\ entry # NoEntry

\* an entry that was read (no missing, corrupted, empty or truncated one) and
\* has not reached the age of the ttl
IsFresh(entry, now, class) ==
    /\ DOMAIN entry = {"timestamp", "value"}
    /\ entry # NoEntry
    /\ now - entry.timestamp < ttl(class)

\* the state before any access
InitialCache ==
    [now |-> 0,
     memory |-> [d \in Descriptors |-> NoEntry],
     files |-> [f \in CacheFiles |-> NoEntry],
     writable |-> TRUE,
     call_count |-> [d \in Descriptors |-> 0],
     instances |-> {}]

\* the access found no valid entry: the function is called, the value kept
\* in the instance and, when the cache directory can be written, in the file
cached_property_compute(C, d, file) ==
    [C EXCEPT !.call_count[d] = @ + 1,
              !.memory[d] = [timestamp |-> C.now,
                             value |-> Computed(d[2], C.call_count[d] + 1)],
              !.files[file] = IF C.writable
                              THEN [timestamp |-> C.now,
                                    value |-> Computed(d[2], C.call_count[d] + 1)]
                              ELSE @,
              !.instances = @ \cup {d[1]}]

\* cached_property_filesystem.__get__ on an instance: the caches it leaves
cached_property_get(C, d, file) ==
    IF IsFresh(C.memory[d], C.now, ClassOf(d[1])) THEN C
    ELSE IF IsFresh(C.files[file], C.now, ClassOf(d[1]))
    THEN [C EXCEPT !.memory[d] = C.files[file], !.instances = @ \cup {d[1]}]
    ELSE cached_property_compute(C, d, file)

\* the steps of that access: the file read, the call of the function, the file write
cached_property_trace(C, d, file) ==
    IF IsFresh(C.memory[d], C.now, ClassOf(d[1])) THEN <<>>
    ELSE IF IsFresh(C.files[file], C.now, ClassOf(d[1]))
    THEN <<Event("_read_fs_cache", file, None, None)>>
    ELSE <<Event("_read_fs_cache", file, None, None), Event("compute", d, None, None)>>
             \o (IF C.writable THEN <<Event("_write_fs_cache", file, None, None)>> ELSE <<>>)

\* cached_property_filesystem._reset: the memory entries of the tracked
\* instances, the cache files and the set of tracked instances are cleared
_reset(C) ==
    [C EXCEPT !.memory = [d \in Descriptors |-> IF d[1] \in C.instances THEN NoEntry ELSE @[d]],
              !.files = [f \in CacheFiles |-> NoEntry],
              !.instances = {}]

\* the calls of the decorated functions so far
TotalCalls(C) ==
    C.call_count[<<"a", "value">>] + C.call_count[<<"b", "value">>]
        + C.call_count[<<"s", "value">>] + C.call_count[<<"m", "alpha">>]
        + C.call_count[<<"m", "beta">>]

CacheCall(op, key, value, C, t) ==
    /\ call' = Call(op, key, value, None, <<>>)
    /\ cache' = C
    /\ trace' = t
    /\ raised' = ""
    /\ UNCHANGED <<_context, output_variables, _output_variables_by_name,
                   _output_variables_by_type, output_data, kv, value_local>>

\* obj.<attr>
CachedPropertyCall ==
    \E d \in Descriptors :
        /\ TotalCalls(cached_property_get(cache, d, _cache_path(d[1], d[2]))) <= MaxCalls
        /\ ret' = cached_property_get(cache, d, _cache_path(d[1], d[2])).memory[d].value
        /\ CacheCall("cached_property", d, None,
                     cached_property_get(cache, d, _cache_path(d[1], d[2])),
                     cached_property_trace(cache, d, _cache_path(d[1], d[2])))

\* cached_property_filesystem._reset()
ResetCall == ret' = None /\ CacheCall("_reset", None, None, _reset(cache), <<>>)

\* time.sleep(1.1)
SleepCall ==
    /\ cache.now < 2 * MaxSleeps
    /\ ret' = None
    /\ CacheCall("sleep", None, None, [cache EXCEPT !.now = @ + 2], <<>>)

\* del obj.__dict__[key] for the keys that start with '__cache_fs_'
DelMemoryCall ==
    \E obj \in {d[1] : d \in Descriptors} :
        /\ ret' = None
        /\ CacheCall("del", obj, None,
                     [cache EXCEPT !.memory = [d \in Descriptors |->
                                                   IF d[1] = obj THEN NoEntry ELSE @[d]]],
                     <<>>)

\* cache_file.write_bytes(...) over a cache file that exists: corrupted data,
\* no data, or the first bytes of the pickle
WriteBytesCall ==
    \E f \in CacheFiles, bytes \in {"corrupted", "empty", "truncated"} :
        /\ cache.files[f] # NoEntry
        /\ ret' = None
        /\ CacheCall("write_bytes", f, bytes, [cache EXCEPT !.files[f] = Unreadable], <<>>)

\* cache_dir.chmod(0o555) on a cache directory that holds no file, and
\* cache_dir.chmod(0o755)
ChmodCall ==
    /\ cache.writable => \A f \in CacheFiles : cache.files[f] = NoEntry
    /\ ret' = None
    /\ CacheCall("chmod", None, ~cache.writable, [cache EXCEPT !.writable = ~@], <<>>)

\* Playbook.__init__ with one of the given output_variables
InitWith(contexts, choices) ==
    /\ cache = InitialCache
    /\ _context \in contexts
    /\ output_variables \in choices
    /\ _output_variables_by_name = None
    /\ _output_variables_by_type = None
    /\ output_data = <<>>
    /\ kv = EmptyDict
    /\ call = Call("__init__", None, None, None, <<>>)
    /\ ret = None
    /\ raised = ""
    /\ value_local = None
    /\ trace = <<>>

\* outputs buffered by add_output and flushed by write_output
Init == InitWith({Context1}, BufferOutputVariables)
Next == AddOutputCall \/ WriteOutputCall
Spec == Init /\ [][Next]_vars

\* outputs written directly through create_output
InitGate == InitWith({Context1}, GateOutputVariables)
NextGate == CreateOutputCall \/ CheckOutputVariableCall
SpecGate == InitGate /\ [][NextGate]_vars

\* keys and values of the create calls that fill the store for the reads
CreateInputs ==
    {<<xString, a>>, <<xString, xString>>, <<xStringArray, List(<<a, b>>)>>,
     <<xStringArray, b>>, <<xRaw, a>>, <<Str(<<"x">>), a>>, <<None, a>>,
     <<Str(<<" ">> \o xString[2] \o <<" ">>), Str(<<"a", "\\", "s", "b">>)>>}

\* keys of the read calls: non-strings, literals, variables
ReadKeys ==
    {None, PyInt(5), List(<<a>>), Str(<<"a", "\\", "s", "b">>), Str(<<" ", "a">>),
     Str(<<"a", "\\", "\\", "s", "b">>), Str(<<"\\", "s", "\\", "s">>),
     Str(<<"\\", "\\", "\\", "s", "b">>),
     Str(<<"v", "=">> \o xString[2]), xString, Str(<<" ">> \o xString[2]),
     xStringArray, xRaw, yString}

CreateCall ==
    \E input \in CreateInputs :
        /\ call' = Call("create", input[1], input[2], None, <<>>)
        /\ Commit(create(Self, input[1], input[2]))
        /\ UNCHANGED <<cache, _context, output_variables, output_data, value_local>>

\* the engine takes over what read left, its local `value` included
CommitValue(r) == Commit(r) /\ value_local' = r.value

ReadCall ==
    \E key \in ReadKeys, array \in BOOLEAN, embedded \in BOOLEAN :
        /\ call' = Call("read", key, None, None, <<array, embedded>>)
        /\ CommitValue(read(Self, key, array, embedded))
        /\ UNCHANGED <<cache, _context, output_variables, output_data>>

\* job ids, names and types of the variables handed to the grammar
GrammarIds == {<<"1">>, <<"4", "2">>}
GrammarNames == {<<"x">>, <<"a", ".", "b">>, <<"k", "-", "1", "_">>}
GrammarTypes ==
    {TString, TString \o TArray, TTCEnhancedEntity \o TArray, <<"R","a","w">>,
     <<"m", "y", "_", "1">>}

GrammarVariables ==
    {Variable(id, name, type) : id \in GrammarIds, name \in GrammarNames, type \in GrammarTypes}

\* values that are no variable: no str at all, or a str off the grammar
GrammarOthers ==
    {None, PyInt(5), List(<<a>>), Dict(EmptyDict), Str(<<>>), Str(<<"x">>),
     Str(AppPrefix \o <<"1", ":", "x">>),
     Str(AppPrefix \o <<":", "x", "!">> \o TString),
     Str(AppPrefix \o <<"1", ":", "x", "!">>),
     Str(AppPrefix \o <<"1", ":", "x", " ", "y", "!">> \o TString),
     Str(AppPrefix \o <<"1", ":", "!">> \o TString),
     Str(<<"#","a","p","p",":", "1", ":", "x", "!">> \o TString),
     Str(<<"v", "=">> \o xString[2]),
     Str(xString[2] \o <<"!">>),
     Str(xString[2] \o <<" ">>),
     Str(<<" ">> \o xString[2])}

GrammarCall(op, variable, r, e) ==
    /\ call' = Call(op, variable, None, None, <<>>)
    /\ ret' = r
    /\ raised' = e
    /\ trace' = <<>>
    /\ UNCHANGED <<cache, _context, output_variables, _output_variables_by_name,
                   _output_variables_by_type, output_data, kv, value_local>>

IsVariableCall ==
    \E variable \in GrammarVariables \cup GrammarOthers :
        GrammarCall("is_variable", variable, PyBool(is_variable(variable)), "")

ParseVariableCall ==
    \E variable \in GrammarVariables \cup GrammarOthers :
        IF parse_variable_raises(variable)
        THEN GrammarCall("parse_variable", variable, None, "AttributeError")
        ELSE GrammarCall("parse_variable", variable, parse_variable(variable), "")

VariableTypeCall ==
    \E variable \in GrammarVariables \cup GrammarOthers :
        GrammarCall("variable_type", variable, variable_type(variable), "")

\* the grammar applied to variables and to other values
InitGrammar == InitWith({Context1}, {None})
NextGrammar == IsVariableCall \/ ParseVariableCall \/ VariableTypeCall
SpecGrammar == InitGrammar /\ [][NextGrammar]_vars

\* keys of the strict creators: variables of single, array and entity types,
\* one of a custom type, a padded variable
StrictKeys ==
    {xString, xStringArray, xRaw, Str(<<" ">> \o xString[2] \o <<" ">>),
     Variable(<<"1">>, <<"x">>, TBinary),
     Variable(<<"1">>, <<"x">>, TTCEntity),
     Variable(<<"1">>, <<"x">>, TTCEntity \o TArray),
     Variable(<<"1">>, <<"x">>, TTCEnhancedEntity)}

StrictCall(op, key, r) ==
    /\ call' = Call(op, key, a, None, <<>>)
    /\ Commit(r)
    /\ UNCHANGED <<cache, _context, output_variables, output_data, value_local>>

CreateBinaryCall ==
    \E key \in StrictKeys : StrictCall("create_binary", key, create_binary(Self, key, a))
CreateBinaryArrayCall ==
    \E key \in StrictKeys :
        StrictCall("create_binary_array", key, create_binary_array(Self, key, a))
CreateKeyValueCall ==
    \E key \in StrictKeys : StrictCall("create_key_value", key, create_key_value(Self, key, a))
CreateKeyValueArrayCall ==
    \E key \in StrictKeys :
        StrictCall("create_key_value_array", key, create_key_value_array(Self, key, a))
CreateStringCall ==
    \E key \in StrictKeys : StrictCall("create_string", key, create_string(Self, key, a))
CreateStringArrayCall ==
    \E key \in StrictKeys :
        StrictCall("create_string_array", key, create_string_array(Self, key, a))
CreateTcEntityCall ==
    \E key \in StrictKeys : StrictCall("create_tc_entity", key, create_tc_entity(Self, key, a))
CreateTcEntityArrayCall ==
    \E key \in StrictKeys :
        StrictCall("create_tc_entity_array", key, create_tc_entity_array(Self, key, a))

\* values written through the strict creators
InitStrict == InitWith({Context1}, {None})
NextStrict ==
    \/ CreateBinaryCall \/ CreateBinaryArrayCall
    \/ CreateKeyValueCall \/ CreateKeyValueArrayCall
    \/ CreateStringCall \/ CreateStringArrayCall
    \/ CreateTcEntityCall \/ CreateTcEntityArrayCall
SpecStrict == InitStrict /\ [][NextStrict]_vars

\* key and alt_key of the read_choice calls
ChoiceKeys ==
    {None, PyInt(5), Str(ChoiceSelect), Str(<<" ">> \o ChoiceSelect \o <<" ">>),
     Str(ChoiceVariableInput), Str(<<" ">> \o ChoiceVariableInput), xString, yString, a}
ChoiceAltKeys == {xStringArray, b}

ReadChoiceCall ==
    \E key \in ChoiceKeys, alt_key \in ChoiceAltKeys :
        /\ call' = Call("read_choice", key, alt_key, None, <<>>)
        /\ CommitValue(read_choice(Self, key, alt_key))
        /\ UNCHANGED <<cache, _context, output_variables, output_data>>

\* entities, and the keys they are stored under
xTCEntity == Variable(<<"1">>, <<"x">>, TTCEntity)
xTCEntityArray == Variable(<<"1">>, <<"x">>, TTCEntity \o TArray)
xTCEnhancedEntity == Variable(<<"1">>, <<"x">>, TTCEnhancedEntity)
xTCEnhancedEntityArray == Variable(<<"1">>, <<"x">>, TTCEnhancedEntity \o TArray)

\* keys and values of the create calls that store the entities; a
\* TCEnhancedEntityArray comes with its collections under `indicators` and
\* `groups`, and with its collections under `indicator` and `group`
EntityInputs ==
    LET Entity1 == Dict([id |-> PyInt(1), value |-> a])
        Entity2 == Dict([id |-> PyInt(2), value |-> b])
        EntityNoValue == Dict([id |-> PyInt(3)])
        Indicator1 == Dict([id |-> PyInt(4), summary |-> a])
        IndicatorNoSummary == Dict([id |-> PyInt(6)])
        Group1 == Dict([id |-> PyInt(5), name |-> b])
    IN  {<<xTCEntity, Entity1>>, <<xTCEntityArray, List(<<Entity1, Entity2>>)>>,
         <<xTCEntityArray, List(<<EntityNoValue>>)>>, <<xTCEnhancedEntity, Group1>>,
         <<xTCEnhancedEntityArray,
           List(<<Dict([indicators |-> List(<<Indicator1>>),
                        groups |-> List(<<Group1>>)])>>)>>,
         <<xTCEnhancedEntityArray,
           List(<<Dict([indicator |-> List(<<Indicator1, IndicatorNoSummary>>),
                        group |-> List(<<Group1>>)])>>)>>,
         <<xString, a>>}

EntityKeys == {xTCEntity, xTCEntityArray, xTCEnhancedEntity, xTCEnhancedEntityArray, xString}
EntityDefaults == {None, Str(<<"?">>)}

CreateEntityCall ==
    \E input \in EntityInputs :
        /\ call' = Call("create", input[1], input[2], None, <<>>)
        /\ Commit(create(Self, input[1], input[2]))
        /\ UNCHANGED <<cache, _context, output_variables, output_data, value_local>>

EntityCall(op, key, default, r) ==
    /\ call' = Call(op, key, default, None, <<>>)
    /\ Commit(r)
    /\ UNCHANGED <<cache, _context, output_variables, output_data, value_local>>

ReadIndicatorValuesCall ==
    \E key \in EntityKeys, default \in EntityDefaults :
        EntityCall("read_indicator_values", key, default,
                   read_indicator_values(Self, key, default))

ReadGroupValuesCall ==
    \E key \in EntityKeys, default \in EntityDefaults :
        EntityCall("read_group_values", key, default, read_group_values(Self, key, default))

ReadGroupIdsCall ==
    \E key \in EntityKeys, default \in EntityDefaults :
        EntityCall("read_group_ids", key, default, read_group_ids(Self, key, default))

\* a write_output during which the store adapter's put raises for some keys
WriteOutputStoreErrorCall ==
    \E failing \in (SUBSET {xStringArray, yString}) \ {{}} :
        /\ call' = Call("write_output", None, None, None, <<failing>>)
        /\ CommitBuffer(write_output([Self EXCEPT !.put_raises = failing], output_data))
        /\ UNCHANGED <<cache, _context, output_variables, value_local>>

\* outputs buffered and flushed to a store adapter whose put may raise
InitStoreError == InitWith({Context1}, BufferOutputVariables)
NextStoreError == AddOutputCall \/ WriteOutputCall \/ WriteOutputStoreErrorCall
SpecStoreError == InitStoreError /\ [][NextStoreError]_vars

\* outputs written directly and through the buffer by one Playbook
IndexOutputVariables == {None, List(<<>>), List(<<yString>>)}
InitIndex == InitWith({Context1}, IndexOutputVariables)
NextIndex == CreateOutputCall \/ CheckOutputVariableCall \/ AddOutputCall \/ WriteOutputCall
SpecIndex == InitIndex /\ [][NextIndex]_vars

(***************************************************************************)
(* The input field type StringArray.                                       *)
(***************************************************************************)
\* repr() of a str or of None
PyRepr(x) == IF IsStr(x) THEN <<"'">> \o x[2] \o <<"'">> ELSE Format(x)

\* ', '.join(repr(x) for x in l) from the i-th element on
RECURSIVE JoinRepr(_, _)
JoinRepr(l, i) ==
    IF i > Len(l) THEN <<>>
    ELSE IF i = Len(l) THEN PyRepr(l[i])
    ELSE PyRepr(l[i]) \o <<",", " ">> \o JoinRepr(l, i + 1)

\* cls(value) for a list: StringArray is a str, so str(value)
StringArray(value) == Str(<<"[">> \o JoinRepr(value[2], 1) \o <<"]">>)

\* StringArray._validate; valid is whether array_validator accepts the list
_validate(S, value, _optional, valid) ==
    IF ~IsList(value) THEN Result(S, List(<<value>>), "")
    ELSE IF ~_optional /\ ~valid THEN Result(S, None, "ValueError")
    ELSE Result(S, StringArray(value), "")

\* the values handed to the validator
ValidateElements == {None, Str(<<>>), a, b}
ValidateValues ==
    {a, b, Str(<<>>), PyInt(0), Dict([k |-> a])}
        \cup {List(l) : l \in UNION {[1..n -> ValidateElements] : n \in 0..MaxLen}}

ValidateCall ==
    \E value \in ValidateValues, _optional \in BOOLEAN, valid \in BOOLEAN :
        /\ call' = Call("_validate", None, value, None, <<_optional, valid>>)
        /\ Commit(_validate(Self, value, _optional, valid))
        /\ UNCHANGED <<cache, _context, output_variables, output_data, value_local>>

\* values validated as StringArray inputs
InitValidate == InitWith({Context1}, {None})
NextValidate == ValidateCall
SpecValidate == InitValidate /\ [][NextValidate]_vars

\* properties cached in memory and in the filesystem
InitCache == InitWith({Context1}, {None})
NextCache ==
    \/ CachedPropertyCall \/ ResetCall \/ SleepCall
    \/ DelMemoryCall \/ WriteBytesCall \/ ChmodCall
SpecCache == InitCache /\ [][NextCache]_vars

\* entities written through create and projected
InitEntity == InitWith({Context1}, {None})
NextEntity ==
    CreateEntityCall \/ ReadIndicatorValuesCall \/ ReadGroupValuesCall \/ ReadGroupIdsCall
SpecEntity == InitEntity /\ [][NextEntity]_vars

\* keys of the delete calls
DeleteKeys == {None, xString, Str(<<" ">> \o xStringArray[2] \o <<" ">>), Str(<<" ", "x">>)}

DeleteCall ==
    \E key \in DeleteKeys :
        /\ call' = Call("delete", key, None, None, <<>>)
        /\ Commit(delete(Self, key))
        /\ UNCHANGED <<cache, _context, output_variables, output_data, value_local>>

\* values written through create and read back
InitRead == InitWith({Context1, Context2}, {None})
NextRead == CreateCall \/ ReadCall \/ ReadChoiceCall \/ DeleteCall
SpecRead == InitRead /\ [][NextRead]_vars

(***************************************************************************)
(* What the last call did, read off its trace.                             *)
(***************************************************************************)
\* the store write of value under key, made with the engine's context
Put(key, value) ==
    [ev |-> "put", key |-> key, value |-> value, type |-> None, context |-> _context]

IsPut(e) == e.ev = "put"
IsCreateOutput(e) == e.ev = "create_output"

\* the store writes of the last call, in order
Puts == SelectSeq(trace, IsPut)

\* the create_output invocations of the last call, in order
CreateOutputs == SelectSeq(trace, IsCreateOutput)

\* the last call was create_output with a key and a value that are not None
IsCreateOutputWithData ==
    call.op = "create_output" /\ ~IsNone(call.key) /\ ~IsNone(call.value)

\* "<key>-<type>" of the last call, the key stripped
CallNameType == NameType(Str(Strip(call.key[2])), call.type)
CallName == Strip(call.key[2])

\* the two indexes, as built by the last create_output
ByType == _output_variables_by_type[2]
ByName == _output_variables_by_name[2]

\* the list the buffer holds under index (empty when it holds none)
BufferedList(od, index) ==
    IF HasIndex(od, index) /\ "value" \in DOMAIN OdGet(od, index)
    THEN OdGet(od, index).value[2]
    ELSE <<>>

(***************************************************************************)
(* C1: create_output(key, value, type) with a type supplied writes nothing *)
(* and returns None when the name-type index has no entry "<key>-<type>",  *)
(* also when the bare name was requested under another type.               *)
(***************************************************************************)
C1_NoEntryNoWrite ==
    (IsCreateOutputWithData /\ ~IsNone(call.type) /\ CallNameType \notin DOMAIN ByType)
        => (Puts = <<>> /\ ret = None /\ raised = "")

\* the name was requested, under another type than the one supplied
C1_Witness ==
    /\ IsCreateOutputWithData /\ ~IsNone(call.type)
    /\ CallNameType \notin DOMAIN ByType
    /\ CallName \in DOMAIN ByName
    /\ Puts = <<>>

(***************************************************************************)
(* C2: a create_output that matches an entry of the requested-output index *)
(* causes one store write, keyed by the full requested variable string     *)
(* #App:<id>:<name>!<type> and never by the caller's bare key.             *)
(***************************************************************************)
C2_Matched ==
    /\ IsCreateOutputWithData
    /\ DOMAIN ByType # {}
    /\ \/ CallNameType \in DOMAIN ByType
       \/ (IsNone(call.type) /\ CallName \in DOMAIN ByName)

C2_WriteKeyIsRequestedVariable ==
    C2_Matched =>
        /\ raised = "" /\ ret = Ack
        /\ Len(Puts) = 1
        /\ Puts[1].value = call.value
        /\ \E i \in 1..Len(output_variables[2]) : Puts[1].key = output_variables[2][i]
        /\ is_variable(Puts[1].key)
        /\ parse_variable(Puts[1].key)[2].name = Str(CallName)
        /\ Puts[1].key # call.key
        /\ Puts[1].key # Str(CallName)

C2_Witness ==
    /\ C2_Matched
    /\ call.key = Str(<<" ", "x", " ">>)
    /\ call.type = Str(TString)
    /\ Puts = <<Put(xString, call.value)>>

C4_NoOpCases ==
    (/\ call.op = "create_output"
     /\ \/ _output_variables = <<>>
        \/ IsNone(call.key)
        \/ IsNone(call.value))
        => (ret = None /\ Puts = <<>> /\ raised = "")

\* a None value for a requested name and type
C4_Witness ==
    /\ call.op = "create_output"
    /\ IsNone(call.value) /\ ~IsNone(call.key)
    /\ CallNameType \in DOMAIN ByType
    /\ ret = None /\ Puts = <<>>

(***************************************************************************)
(* C5: add_output(k, a, T) then add_output(k, b, T) for an array type T,   *)
(* appending, leaves under "k-T" what was there followed by a's and then   *)
(* b's contribution (a list element by element, anything else as one       *)
(* element), and write_output puts that list in the store under the        *)
(* variable requested for k and T.                                         *)
(***************************************************************************)
C5_AppendStep ==
    (/\ call'.op = "add_output"
     /\ call'.type \in _variable_array_types
     /\ call'.flags = <<TRUE>>
     /\ raised' = "")
        => BufferedList(output_data', NameType(call'.key, call'.type))
             = BufferedList(output_data, NameType(call'.key, call'.type))
                 \o (IF IsList(call'.value) THEN call'.value[2] ELSE <<call'.value>>)

C5_Flushed ==
    (call.op = "write_output" /\ raised = "") =>
        \A i \in 1..Len(output_data) :
            LET data == output_data[i].data
            IN  (/\ DOMAIN data = {"key", "type", "value"}
                 /\ data.type \in _variable_array_types
                 /\ IsList(data.value)
                 /\ NameType(data.key, data.type) \in DOMAIN ByType)
                    => /\ ByType[NameType(data.key, data.type)].variable[2] \in DOMAIN kv
                       /\ kv[ByType[NameType(data.key, data.type)].variable[2]] = data.value

C5_ConcatenatedThenWritten == [][C5_AppendStep]_vars /\ []C5_Flushed

\* "a" and then ["b"] were added under x-StringArray and the store holds ["a", "b"]
C5_Witness ==
    /\ call.op = "write_output"
    /\ BufferedList(output_data, NameType(Str(<<"x">>), Str(TString \o TArray))) = <<a, b>>
    /\ xStringArray[2] \in DOMAIN kv
    /\ kv[xStringArray[2]] = List(<<a, b>>)

(***************************************************************************)
(* C6: add_output with a None value for a type that is not an array type,  *)
(* or for an array type with append_array false, leaves the buffer exactly *)
(* as it was.                                                              *)
(***************************************************************************)
C6_NoneValueLeavesBuffer ==
    [][(/\ call'.op = "add_output"
        /\ IsNone(call'.value)
        /\ (call'.type \notin _variable_array_types \/ call'.flags = <<FALSE>>))
           => output_data' = output_data]_vars

(***************************************************************************)
(* C7: write_output hands every buffered record to create_output(key,      *)
(* value, type) once per call, in the order in which the records' indexes  *)
(* were first inserted (an index keeps its position once inserted).        *)
(***************************************************************************)
C7_InOrderOnce ==
    (call.op = "write_output" /\ raised = "") =>
        /\ Len(CreateOutputs) = Len(output_data)
        /\ \A i \in 1..Len(output_data) :
               CreateOutputs[i] = Event("create_output",
                                        DictGet(output_data[i].data, "key"),
                                        DictGet(output_data[i].data, "value"),
                                        DictGet(output_data[i].data, "type"))

C7_PositionsKept ==
    /\ Len(output_data') >= Len(output_data)
    /\ \A i \in 1..Len(output_data) : output_data'[i].index = output_data[i].index

C7_FlushInInsertionOrder == []C7_InOrderOnce /\ [][C7_PositionsKept]_vars

\* y-String was inserted before x-StringArray and both were handed over in that order
C7_Witness ==
    /\ call.op = "write_output"
    /\ Len(output_data) = 2
    /\ output_data[1].index = NameType(Str(<<"y">>), Str(TString))
    /\ Len(CreateOutputs) = 2
    /\ CreateOutputs[1].key = Str(<<"y">>)
    /\ CreateOutputs[2].key = Str(<<"x">>)
    /\ Len(Puts) = 2

(***************************************************************************)
(* C8: write_output leaves the buffer as it was, and a write_output that   *)
(* directly follows a write_output issues the same store writes.           *)
(***************************************************************************)
C8_Step ==
    /\ (call'.op = "write_output" => output_data' = output_data)
    /\ (call.op = "write_output" /\ call'.op = "write_output" /\ raised = "")
           => (Puts' = Puts /\ raised' = "" /\ kv' = kv)

C8_BufferKeptAndRewritten == [][C8_Step]_vars

\* a write_output that wrote a buffered list and left it buffered
C8_Witness ==
    /\ call.op = "write_output"
    /\ Len(Puts) = 2
    /\ Len(output_data) = 2
    /\ \A i \in 1..2 : "value" \in DOMAIN output_data[i].data

(***************************************************************************)
(* C9: read(key, array=True) returns a list: the value read when that is a *)
(* list, a one-element list of it when it is neither None nor a list, and  *)
(* the empty list, not [None], when it is None.                            *)
(***************************************************************************)
C9_ArrayCoercion ==
    (call.op = "read" /\ call.flags[1] /\ raised = "") =>
        /\ IsList(ret)
        /\ IsList(value_local) => ret = value_local
        /\ (~IsList(value_local) /\ ~IsNone(value_local)) => ret = List(<<value_local>>)
        /\ IsNone(value_local) => ret = List(<<>>)

\* a variable the store does not hold, read as an array
C9_Witness ==
    /\ call.op = "read" /\ call.flags[1]
    /\ call.key = yString
    /\ IsNone(value_local)
    /\ ret = List(<<>>)
    /\ Len(trace) = 1

(***************************************************************************)
(* C10: read(key) with a key that is not a str returns the key itself,     *)
(* makes no call to the store and raises nothing.                          *)
(***************************************************************************)
C10_NonStringKey ==
    (call.op = "read" /\ ~IsStr(call.key)) =>
        /\ trace = <<>>
        /\ raised = ""
        /\ ~call.flags[1] => ret = call.key

C10_Witness ==
    /\ call.op = "read"
    /\ call.key = PyInt(5)
    /\ ~call.flags[1]
    /\ ret = PyInt(5)
    /\ kv # EmptyDict

(***************************************************************************)
(* What a read of key does when nothing stored holds an embedded variable. *)
(***************************************************************************)
\* the store read of key, made with the engine's context
Get(key) ==
    [ev |-> "get", key |-> key, value |-> None, type |-> None, context |-> _context]

\* no variable is written anywhere in the str s
NoVariableIn(s) == \A p \in 1..Len(s) : MatchEndAt(s, p) = 0

\* value holds no embedded variable: neither as a str nor in an item of a list
NoEmbedded(value) ==
    IF IsStr(value) THEN NoVariableIn(value[2])
    ELSE IF IsList(value)
         THEN \A i \in 1..Len(value[2]) : IsStr(value[2][i]) => NoVariableIn(value[2][i][2])
    ELSE TRUE

\* the last call did what read(key) does: one store read of the stripped
\* variable, returning what the store holds under it, or the literal itself
DidRead(key) ==
    IF is_variable(Str(Strip(key[2])))
    THEN /\ trace # <<>> /\ trace[1] = Get(Str(Strip(key[2])))
         /\ NoEmbedded(DictGet(kv, Strip(key[2])))
                => (trace = <<Get(Str(Strip(key[2])))>> /\ ret = DictGet(kv, Strip(key[2])))
    ELSE trace = <<>>

Expected(op) ==
    CASE op = "create_binary" -> {Str(TBinary)}
      [] op = "create_binary_array" -> {Str(TBinary \o TArray)}
      [] op = "create_key_value" -> {Str(TKeyValue)}
      [] op = "create_key_value_array" -> {Str(TKeyValue \o TArray)}
      [] op = "create_string" -> {Str(TString)}
      [] op = "create_string_array" -> {Str(TString \o TArray)}
      [] op = "create_tc_entity" -> {Str(TTCEntity)}
      [] op = "create_tc_entity_array" ->
             {Str(TTCEntity \o TArray), Str(TTCEnhancedEntity),
              Str(TTCEnhancedEntity \o TArray)}

StrictOps ==
    {"create_binary", "create_binary_array", "create_key_value", "create_key_value_array",
     "create_string", "create_string_array", "create_tc_entity", "create_tc_entity_array"}

\* the type written after the '!' of the key of the last call
DeclaredType == parse_variable(call.key)[2].type

C12_Mismatch ==
    (/\ call.op \in StrictOps
     /\ ~IsNone(parse_variable(call.key))
     /\ DeclaredType \notin Expected(call.op))
        => (raised = "RuntimeError" /\ Puts = <<>> /\ ret = None)

C12_NothingWritten ==
    (call'.op \in StrictOps /\ raised' = "RuntimeError") => kv' = kv

C12_StrictCreators == []C12_Mismatch /\ [][C12_NothingWritten]_vars

\* create_string refused a StringArray key while the store held earlier writes
C12_Witness ==
    /\ call.op = "create_string"
    /\ call.key = xStringArray
    /\ raised = "RuntimeError"
    /\ Puts = <<>>
    /\ kv # EmptyDict

(***************************************************************************)
(* C13: for every string s = #App:<id>:<name>!<type>, is_variable(s) is    *)
(* true, parse_variable(s) gives job_id = <id>, name = <name>,             *)
(* type = <type> and root = s, and variable_type(s) gives <type>.          *)
(***************************************************************************)
GrammarOps == {"is_variable", "parse_variable", "variable_type"}

C13_GrammarRecovers ==
    \A id \in GrammarIds, name \in GrammarNames, type \in GrammarTypes :
        (call.op \in GrammarOps /\ call.key = Variable(id, name, type)) =>
            /\ raised = ""
            /\ call.op = "is_variable" => ret = PyBool(TRUE)
            /\ call.op = "parse_variable" =>
                   ret = Dict([root |-> call.key, job_id |-> Str(id),
                               name |-> Str(name), type |-> Str(type)])
            /\ call.op = "variable_type" => ret = Str(type)

\* a two-digit job id, a name with '-' and '_', a custom type
C13_Witness ==
    /\ call.op = "parse_variable"
    /\ call.key = Variable(<<"4", "2">>, <<"k", "-", "1", "_">>, <<"m", "y", "_", "1">>)
    /\ ret[2].job_id = Str(<<"4", "2">>)
    /\ ret[2].name = Str(<<"k", "-", "1", "_">>)
    /\ ret[2].type = Str(<<"m", "y", "_", "1">>)

(***************************************************************************)
(* C14: for every input that is a string off the grammar or no string at   *)
(* all, is_variable returns False, parse_variable returns None and         *)
(* variable_type returns "String", and none of the three raises.           *)
(***************************************************************************)
C14_NonVariables ==
    (call.op \in GrammarOps /\ call.key \in GrammarOthers) =>
        /\ raised = ""
        /\ call.op = "is_variable" => ret = PyBool(FALSE)
        /\ call.op = "parse_variable" => ret = None
        /\ call.op = "variable_type" => ret = Str(TString)

(***************************************************************************)
(* C15: create(key, value) on a variable key of a single or an array type  *)
(* stores value under the key, no read changes the store, and read(key)    *)
(* returns what the store holds under the key when that holds no embedded  *)
(* variable: create followed by read gives the value back as long as       *)
(* nothing else is written to the key in between.                          *)
(***************************************************************************)
\* key is a variable of a single or an array type
IsTypedVariable(key) ==
    /\ IsStr(key)
    /\ is_variable(Str(Strip(key[2])))
    /\ parse_variable(key)[2].type \in _variable_single_types \cup _variable_array_types

C15_Stored ==
    (call'.op = "create" /\ IsTypedVariable(call'.key)) =>
        /\ raised' = ""
        /\ Strip(call'.key[2]) \in DOMAIN kv'
        /\ kv'[Strip(call'.key[2])] = call'.value
        /\ \A k \in DOMAIN kv : k # Strip(call'.key[2]) => (k \in DOMAIN kv' /\ kv'[k] = kv[k])

C15_ReadsKeepStore == call'.op \in {"read", "read_choice"} => kv' = kv

C15_ReadBack ==
    (/\ call.op = "read" /\ ~call.flags[1]
     /\ IsTypedVariable(call.key)
     /\ Strip(call.key[2]) \in DOMAIN kv
     /\ NoEmbedded(kv[Strip(call.key[2])]))
        => (raised = "" /\ ret = kv[Strip(call.key[2])])

EscapeCases ==
    {<<<<"a", "\\", "s", "b">>, <<"a", " ", "b">>>>,
     <<<<"a", "\\", "\\", "s", "b">>, <<"a", "\\", "s", "b">>>>,
     <<<<"\\", "s", "\\", "s">>, <<" ", " ">>>>,
     <<<<"\\", "\\", "\\", "s", "b">>, <<"\\", "\\", "s", "b">>>>,
     <<<<" ", "a">>, <<" ", "a">>>>}

C16_LiteralEscapes ==
    /\ \A c \in EscapeCases :
           (call.op = "read" /\ call.key = Str(c[1]) /\ ~call.flags[1])
               => (ret = Str(c[2]) /\ raised = "" /\ trace = <<>>)
    /\ (/\ call.op = "read" /\ call.key = xString /\ ~call.flags[1]
        /\ DictGet(kv, xString[2]) = Str(<<"a", "\\", "s", "b">>))
           => ret = Str(<<"a", "\\", "s", "b">>)

\* the escaped form was read with embedded resolution on
C16_Witness ==
    /\ call.op = "read"
    /\ call.key = Str(<<"a", "\\", "\\", "s", "b">>)
    /\ call.flags = <<FALSE, TRUE>>
    /\ ret = Str(<<"a", "\\", "s", "b">>)

(***************************************************************************)
(* C17: create(key, value) with a key that is a str takes exactly one      *)
(* write path and returns the store's acknowledgment: _create for a single *)
(* type, _create_array for an array type, create_raw for every other key.  *)
(***************************************************************************)
IsPath(e) == e.ev \in {"_create", "_create_array", "create_raw"}

\* the write paths the last call took, in order
Paths == SelectSeq(trace, IsPath)

\* the write path a str key calls for
PathOf(key) ==
    IF IsNone(parse_variable(key)) THEN "create_raw"
    ELSE IF parse_variable(key)[2].type \in _variable_single_types THEN "_create"
    ELSE IF parse_variable(key)[2].type \in _variable_array_types THEN "_create_array"
    ELSE "create_raw"

C17_OneWritePath ==
    (call.op = "create" /\ IsStr(call.key)) =>
        /\ raised = ""
        /\ ret = Ack
        /\ Len(Paths) = 1
        /\ Paths[1].ev = PathOf(call.key)

(***************************************************************************)
(* C18: create(None, value) and delete(None) return None, make no call to  *)
(* the store and raise nothing; with a key that is a str both hand the     *)
(* stripped key to the store together with the engine's context.           *)
(***************************************************************************)
IsStoreCall(e) == e.ev \in {"put", "get", "delete"}

\* the calls of the store the last call made, in order
StoreCalls == SelectSeq(trace, IsStoreCall)

C18_NullAndStrippedKeys ==
    call.op \in {"create", "delete"} =>
        IF IsNone(call.key)
        THEN ret = None /\ StoreCalls = <<>> /\ raised = ""
        ELSE /\ raised = ""
             /\ Len(StoreCalls) = 1
             /\ StoreCalls[1].ev = (IF call.op = "create" THEN "put" ELSE "delete")
             /\ StoreCalls[1].key = Str(Strip(call.key[2]))
             /\ StoreCalls[1].context = _context

(***************************************************************************)
(* What the entity projections are to return, read off the store.          *)
(***************************************************************************)
\* the elements of what the store holds under key, a single value being one
StoredElements(key) == IF IsList(kv[key[2]]) THEN kv[key[2]][2] ELSE <<kv[key[2]]>>

\* the collections nested in the first element of what the store holds under key
Nested(key) == kv[key[2]][2][1][2]

\* the field of each element, the default where an element lacks it
FieldOfEach(elements, field, default) ==
    List([i \in 1..Len(elements) |-> PyGet(elements[i], field, default)])

(***************************************************************************)
(* C19: for a TCEnhancedEntityArray key read_indicator_values returns the  *)
(* `summary` of each element nested under `indicators` and                 *)
(* read_group_values the `name` of each element nested under `groups`; for *)
(* TCEntity and TCEntityArray keys both return the `value` of each         *)
(* element.                                                                *)
(***************************************************************************)
C19_EntityValues ==
    (/\ call.op \in {"read_indicator_values", "read_group_values"}
     /\ call.key[2] \in DOMAIN kv) =>
        /\ call.key \in {xTCEntity, xTCEntityArray} =>
               ret = FieldOfEach(StoredElements(call.key), "value", call.value)
        /\ (/\ call.key = xTCEnhancedEntityArray
            /\ call.op = "read_indicator_values"
            /\ "indicators" \in DOMAIN Nested(call.key)) =>
               ret = FieldOfEach(Nested(call.key).indicators[2], "summary", call.value)
        /\ (/\ call.key = xTCEnhancedEntityArray
            /\ call.op = "read_group_values"
            /\ "groups" \in DOMAIN Nested(call.key)) =>
               ret = FieldOfEach(Nested(call.key).groups[2], "name", call.value)

(***************************************************************************)
(* C20: read_group_ids(key) returns the `id` of each group element, one    *)
(* entry per element, for TCEntity, TCEntityArray, TCEnhancedEntity and    *)
(* TCEnhancedEntityArray keys alike.                                       *)
(***************************************************************************)
C20_GroupIds ==
    (/\ call.op = "read_group_ids"
     /\ call.key \in {xTCEntity, xTCEntityArray, xTCEnhancedEntity, xTCEnhancedEntityArray}
     /\ call.key[2] \in DOMAIN kv) =>
        IF call.key = xTCEnhancedEntityArray
        THEN /\ "groups" \in DOMAIN Nested(call.key) =>
                    ret = FieldOfEach(Nested(call.key).groups[2], "id", call.value)
             /\ "group" \in DOMAIN Nested(call.key) =>
                    ret = FieldOfEach(Nested(call.key).group[2], "id", call.value)
        ELSE ret = FieldOfEach(StoredElements(call.key), "id", call.value)

(***************************************************************************)
(* What the entity projections iterate over, read off the store.           *)
(***************************************************************************)
ProjectionOps == {"read_indicator_values", "read_group_values", "read_group_ids"}

\* the elements the list comprehension of lines 479-481 runs over: the
\* elements read, and for a TCEnhancedEntityArray the collection that line 470
\* takes out of the first element read (empty when it is absent)
ProjectedElements ==
    IF call.key = xTCEnhancedEntityArray
    THEN PyGet(kv[call.key[2]][2][1],
               IF call.op = "read_indicator_values" THEN "indicator" ELSE "group",
               List(<<>>))[2]
    ELSE StoredElements(call.key)

\* the field the call projects out of an element of the key's type, "" when
\* the elements are returned whole
ProjectedField ==
    IF call.key \in {xTCEntity, xTCEntityArray}
    THEN IF call.op = "read_group_ids" THEN "id" ELSE "value"
    ELSE IF call.key = xTCEnhancedEntityArray /\ call.op = "read_indicator_values"
    THEN "summary"
    ELSE IF call.key = xTCEnhancedEntityArray /\ call.op = "read_group_values"
    THEN "name"
    ELSE ""

IsParse(e) == e.ev = "_parse_output_variables"

C22_BuiltTogether == IsNone(_output_variables_by_name) <=> IsNone(_output_variables_by_type)

C22_Step ==
    /\ call'.op \in {"create_output", "check_output_variable", "add_output", "write_output"}
    /\ Len(SelectSeq(trace', IsParse)) <= 1
    /\ ~IsNone(_output_variables_by_name) =>
           /\ SelectSeq(trace', IsParse) = <<>>
           /\ _output_variables_by_name' = _output_variables_by_name
           /\ _output_variables_by_type' = _output_variables_by_type

C22_BuiltOnce == []C22_BuiltTogether /\ [][C22_Step]_vars

\* a create_output call that found the mappings of an empty requested list
\* built and did not parse
C22_Witness ==
    /\ call.op = "create_output"
    /\ output_variables = List(<<>>)
    /\ _output_variables_by_name = Dict(EmptyDict)
    /\ _output_variables_by_type = Dict(EmptyDict)
    /\ Len(trace) = 1 /\ trace[1].ev = "create_output"

(***************************************************************************)
(* The requested variables that share a bare name, read off the list the   *)
(* Playbook was constructed with.                                          *)
(***************************************************************************)
\* the positions of the requested variables with the given bare name
Listed(name) ==
    {i \in 1..Len(_output_variables) : parse_variable(_output_variables[i])[2].name[2] = name}

\* the last requested variable with the given bare name
LastListed(name) ==
    _output_variables[CHOOSE i \in Listed(name) : \A j \in Listed(name) : j <= i]

(***************************************************************************)
(* C23: when several requested variables share one bare name with          *)
(* different types, the by-name mapping holds the last of them in the      *)
(* requested list, create_output(name, value) with no type writes to that  *)
(* last-listed variable, and the name-type mapping has an entry for each   *)
(* of them.                                                                *)
(***************************************************************************)
C23_LastListedWins ==
    (/\ IsCreateOutputWithData
     /\ IsNone(call.type)
     /\ Cardinality(Listed(CallName)) > 1) =>
        /\ ByName[CallName].variable = LastListed(CallName)
        /\ Puts = <<Put(LastListed(CallName), call.value)>>
        /\ \A i \in Listed(CallName) :
               LET parsed == parse_variable(_output_variables[i])[2]
               IN  /\ NameType(parsed.name, parsed.type) \in DOMAIN ByType
                   /\ ByType[NameType(parsed.name, parsed.type)].variable
                          = _output_variables[i]

(***************************************************************************)
(* C24: an exception that the store adapter's put raises during            *)
(* write_output reaches the caller as it was raised: the put that raised   *)
(* is the last call made and was made once, no later record is handed to   *)
(* create_output, the records before it were handed over in insertion      *)
(* order, and the buffer is left as it was before the call.                *)
(***************************************************************************)
\* the keys for which the adapter's put raised during the last call
PutRaises == IF call.flags = <<>> THEN {} ELSE call.flags[1]

IsRaisingPut(e) == e.ev = "put" /\ e.key \in PutRaises

C24_Propagated ==
    call.op = "write_output" =>
        /\ raised = (IF SelectSeq(trace, IsRaisingPut) = <<>> THEN "" ELSE "StoreError")
        /\ raised # "" =>
               /\ Len(SelectSeq(trace, IsRaisingPut)) = 1
               /\ IsRaisingPut(trace[Len(trace)])
               /\ Len(CreateOutputs) <= Len(output_data)
               /\ \A i \in 1..Len(CreateOutputs) :
                      CreateOutputs[i] = Event("create_output",
                                               DictGet(output_data[i].data, "key"),
                                               DictGet(output_data[i].data, "value"),
                                               DictGet(output_data[i].data, "type"))

C24_BufferKept == call'.op = "write_output" => output_data' = output_data

C24_StoreErrorPropagates == []C24_Propagated /\ [][C24_BufferKept]_vars

\* the put of the first of two buffered records raised: the second record was
\* not handed to create_output and both are still buffered
C24_Witness ==
    /\ call.op = "write_output"
    /\ raised = "StoreError"
    /\ Len(output_data) = 2
    /\ \A i \in 1..2 : "value" \in DOMAIN output_data[i].data
    /\ Len(CreateOutputs) = 1
    /\ Len(Puts) = 1

(***************************************************************************)
(* C27: StringArray._validate returns a list whenever it returns: a value  *)
(* that is no list wrapped in a one-element list, a list as a list.        *)
(***************************************************************************)
C27_AlwaysList ==
    (call.op = "_validate" /\ raised = "") =>
        /\ IsList(ret)
        /\ ~IsList(call.value) => ret = List(<<call.value>>)

(***************************************************************************)
(* C28: add_output with a value that is not None, for a type that is not   *)
(* an array type or with append_array false, leaves under "<key>-<type>"   *)
(* exactly {key, type, value}, whatever the record held before, and leaves *)
(* every other record and the order of the records as they were.           *)
(***************************************************************************)
C28_Step ==
    (/\ call'.op = "add_output"
     /\ ~IsNone(call'.value)
     /\ (call'.type \notin _variable_array_types \/ call'.flags = <<FALSE>>)) =>
        /\ raised' = ""
        /\ HasIndex(output_data', NameType(call'.key, call'.type))
        /\ OdGet(output_data', NameType(call'.key, call'.type))
               = [key |-> call'.key, type |-> call'.type, value |-> call'.value]
        /\ Len(output_data')
               = (IF HasIndex(output_data, NameType(call'.key, call'.type))
                  THEN Len(output_data) ELSE Len(output_data) + 1)
        /\ \A i \in 1..Len(output_data) :
               output_data[i].index # NameType(call'.key, call'.type)
                   => output_data'[i] = output_data[i]

C28_Overwrite == [][C28_Step]_vars

\* an add_output with append_array false left the value as given, no list,
\* under the array type, beside the record of another index
C28_Witness ==
    /\ call.op = "add_output"
    /\ call.flags = <<FALSE>>
    /\ call.type = Str(TString \o TArray)
    /\ call.value = a
    /\ Len(output_data) = 2
    /\ output_data[1].index = NameType(call.key, call.type)
    /\ output_data[1].data = [key |-> call.key, type |-> call.type, value |-> a]
    /\ "value" \in DOMAIN output_data[2].data

(***************************************************************************)
(* C29: after any sequence of add_output and write_output calls every      *)
(* record of the buffer holds key, type and value and is stored under the  *)
(* index "<key>-<type>" of its own key and type.                           *)
(***************************************************************************)
C29_RecordsComplete ==
    \A i \in 1..Len(output_data) :
        /\ DOMAIN output_data[i].data = {"key", "type", "value"}
        /\ output_data[i].index = NameType(output_data[i].data.key, output_data[i].data.type)

(***************************************************************************)
(* C30: a strict creator that accepts a key takes the write path, scalar   *)
(* or array, that create(key, value) takes for that key, and leaves the    *)
(* store as create(key, value) would have left it.                         *)
(***************************************************************************)
\* the write paths taken in a trace, by name
PathNames(t) == [i \in 1..Len(SelectSeq(t, IsPath)) |-> SelectSeq(t, IsPath)[i].ev]

C30_Step ==
    (call'.op \in StrictOps /\ raised' = "") =>
        /\ create(Self, call'.key, call'.value).raised = ""
        /\ PathNames(create(Self, call'.key, call'.value).S.trace) = PathNames(trace')
        /\ create(Self, call'.key, call'.value).S.kv = kv'

C30_StrictAsGeneric == [][C30_Step]_vars

(***************************************************************************)
(* The entries an access to a cached property finds.                       *)
(***************************************************************************)
\* the age of an entry that can be read, -1 for a missing or unreadable one
Age(entry) ==
    IF "timestamp" \in DOMAIN entry /\ entry.timestamp >= 0
    THEN cache.now - entry.timestamp
    ELSE -1

\* the entry is there and its age has not exceeded the ttl of the property of d
Unexpired(entry, d) == Age(entry) >= 0 /\ ~(Age(entry) > ttl(ClassOf(d[1])))

\* the cache file of the property of d
FileOf(d) == <<ClassOf(d[1]), d[2]>>

IsCompute(e) == e.ev = "compute"
IsFsRead(e) == e.ev = "_read_fs_cache"

(***************************************************************************)
(* C25: while an entry of a cached_property_filesystem property is         *)
(* unexpired the property is not computed again: an access with an         *)
(* unexpired memory entry returns its value without calling the function   *)
(* and without reading the filesystem, an access of an instance without a  *)
(* memory entry returns the value of the unexpired cache file of its class *)
(* and property name without calling the function, and no access touches   *)
(* the entries of another instance, property name or class.                *)
(***************************************************************************)
C25_Step ==
    call'.op = "cached_property" =>
        /\ Unexpired(cache.memory[call'.key], call'.key) =>
               /\ ret' = cache.memory[call'.key].value
               /\ trace' = <<>>
               /\ cache'.call_count = cache.call_count
        /\ (/\ ~Unexpired(cache.memory[call'.key], call'.key)
            /\ Unexpired(cache.files[FileOf(call'.key)], call'.key)) =>
               /\ ret' = cache.files[FileOf(call'.key)].value
               /\ SelectSeq(trace', IsCompute) = <<>>
               /\ cache'.call_count = cache.call_count
        /\ \A d \in Descriptors \ {call'.key} :
               /\ cache'.memory[d] = cache.memory[d]
               /\ cache'.call_count[d] = cache.call_count[d]
        /\ \A f \in CacheFiles \ {FileOf(call'.key)} : cache'.files[f] = cache.files[f]

C25_ComputedOnce == [][C25_Step]_vars

\* the first access on the Counter b returned what the Counter a had
\* computed, read from the cache file, and b's function was not called
C25_Witness ==
    /\ call.op = "cached_property"
    /\ call.key = <<"b", "value">>
    /\ cache.call_count[<<"a", "value">>] = 1
    /\ cache.call_count[<<"b", "value">>] = 0
    /\ ret = <<"value", 1>>
    /\ Len(trace) = 1 /\ IsFsRead(trace[1])

(***************************************************************************)
(* C26: an access to a cached_property_filesystem property that finds no   *)
(* valid entry calls the function and returns the new value: when the      *)
(* memory entry is gone or older than the ttl and the cache file is        *)
(* missing, unreadable (corrupted, empty, truncated) or older than the     *)
(* ttl; _reset leaves no entry in either layer; and with a cache directory *)
(* that cannot be written the computed value is returned all the same.     *)
(***************************************************************************)
C26_Step ==
    /\ (/\ call'.op = "cached_property"
        /\ ~Unexpired(cache.memory[call'.key], call'.key)
        /\ ~Unexpired(cache.files[FileOf(call'.key)], call'.key)) =>
           /\ cache'.call_count[call'.key] = cache.call_count[call'.key] + 1
           /\ ret' = <<call'.key[2], cache.call_count[call'.key] + 1>>
           /\ Len(SelectSeq(trace', IsCompute)) = 1
           /\ ~cache.writable => cache'.files = cache.files
    /\ call'.op = "_reset" =>
           /\ \A d \in Descriptors : Age(cache.memory[d])' = -1
           /\ \A f \in CacheFiles : Age(cache.files[f])' = -1

C26_Recomputed == [][C26_Step]_vars

\* the ShortTTL s computed its value a second time, two seconds after the first
C26_Witness ==
    /\ call.op = "cached_property"
    /\ call.key = <<"s", "value">>
    /\ cache.now = 2
    /\ cache.call_count[<<"s", "value">>] = 2
    /\ ret = <<"value", 2>>
    /\ cache.memory[<<"s", "value">>] = [timestamp |-> 2, value |-> <<"value", 2>>]

====
